---- MODULE Spec2Model ----
(***************************************************************************)
(* Model of the bulebule micromouse firmware: the injected ADC sweep and   *)
(* its completion handler (adc1_2_isr) against the foreground loop of      *)
(* main, the quadrature-encoder counters and the distance tracker polling  *)
(* them, and the calibration procedures of calibration.c with the          *)
(* tick-paced helpers (each, sleep_ticks) they are built on.               *)
(*                                                                         *)
(* The specifications share the variables:                                 *)
(*   SensorSpec   the ADC sweep, adc1_2_isr and the loop of main           *)
(*   BoardSpec    SensorSpec with sys_tick_handler, the whole of part_001  *)
(*   EncoderSpec  the 16-bit encoder counters and the distance tracker     *)
(*   Spec         the calibration procedures and the tick clock            *)
(*   LiveSpec     Spec on a processor and a tick timer that never halt     *)
(* Each leaves the variables of the other parts at their initial values.   *)
(***************************************************************************)
EXTENDS Integers, Naturals, Sequences, FiniteSets, TLC

\* ------------------------------------------------------------------------
\* Bounds of the model
\* ------------------------------------------------------------------------

\* Largest raw sample a conversion yields in the model (the ADC has 12 bits).
MaxSample == 1

\* Number of conversion sweeps the trigger timer starts before it stalls.
MaxSweeps == 2

\* Number of polls of the encoder counters in one run.
MaxPolls == 2

\* How far beyond half the counter range the largest wheel movement between
\* two polls goes, in counts.
MoveOvershoot == 7232

\* Ticks a distance-based wait may last before the vehicle is given up.
MaxTravelTicks == 4

\* Distances the vehicle can cover in one tick, micrometers (besides none).
StepShort == 250000

StepLong == 300000

\* Largest distance the vehicle covers in one run, micrometers.
MaxMicrometers == 750000

\* How many ticks before its wrap the tick counter may stand at the start.
ClockWrapLead == 1500

\* Largest number of cells run_micrometers_per_count_calibration is given.
MaxCells == 2

\* Ticks that may pass while run_distances_profiling runs its loop.
MaxProbeTicks == 3

\* How many ticks before its wrap the tick counter may stand when
\* run_distances_profiling starts.
ProbeWrapLead == 2

\* ------------------------------------------------------------------------
\* Variables
\* ------------------------------------------------------------------------

VARIABLES
    \* --- sensor sampling pipeline (part_001) ---
    ADC_SR,        \* flags set in the ADC status register
    JDR,           \* injected data registers, rank 1..4
    sweep_no,      \* ghost: number of sweeps completed by the hardware
    sensor,        \* sensor_1..sensor_4, the cells written by adc1_2_isr
    sensor_src,    \* ghost: sweep whose handler invocation wrote each cell
    isr_pc,        \* position of adc1_2_isr ("idle" when not running)
    frame_before,  \* ghost: the cells as they were when the handler was entered
    main_pc,       \* position of the loop of main
    args,          \* values loaded so far for the arguments of printf
    args_read,     \* which of the four arguments have been loaded
    args_src,      \* ghost: sweep of the cell value each argument holds
    usart_out,     \* the frame last sent through printf
    round_clean,   \* ghost: no handler ran since the current loads began
    quiet_reads,   \* ghost: completed printf calls since the last handler run
    reads_agree,   \* ghost: every frame read in a quiet period equalled the one before
    \* --- encoder distance tracker ---
    TIM_CNT,       \* counter registers of TIM1 (left) and TIM4 (right)
    last_count,    \* raw counter value used by the previous poll, per wheel
    encoder_micrometers,  \* cumulative distance per wheel, micrometers
    moved,         \* ghost: the wheels moved since the previous poll
    travelled,     \* ghost: true signed counts traversed since the previous poll
    wraps,         \* ghost: counter wraps since the previous poll
    true_total,    \* ghost: true signed counts traversed since the last reset
    last_delta,    \* ghost: delta computed by the latest poll
    last_travelled,  \* ghost: true counts traversed before the latest poll
    polls,         \* ghost: polls since the start
    one_wrap_ok,   \* ghost: every poll since the reset saw at most one wrap
    half_range_ok, \* ghost: every poll since the reset saw less than half a range
    \* --- calibration sequencer and tick clock ---
    proc,          \* the calibration procedure of this run
    cells,         \* argument of run_micrometers_per_count_calibration
    pc,            \* position of the foreground in the procedure
    led,           \* GPIOC13, toggled by sys_tick_handler
    clock_ticks,   \* the tick counter read by get_clock_ticks (uint32)
    ticks_elapsed, \* ghost: ticks since the start of the run
    travel_ticks,  \* ghost: ticks spent in distance-based waits
    micrometers,   \* get_encoder_average_micrometers()
    in_motion,     \* ghost: a linear movement was commanded since the last reset
    target_linear_speed,   \* mm/s
    target_angular_speed,  \* microradians/s
    motor_control,         \* motor control enabled
    side_control,          \* side sensors control enabled
    front_control,         \* front sensors control enabled
    linear_acceleration,   \* mm/s^2
    linear_deceleration,   \* mm/s^2
    max_linear_speed,      \* mm/s
    locals,        \* local variables of the running procedure
    each_period, each_during, each_function, each_start, each_last, each_ret,
                   \* parameters and state of the running each()
    sleep_start, sleep_for, sleep_ret,   \* state of the running sleep_ticks()
    each_calls,    \* ghost: invocations of the function by the running each()
    each_returned, \* ghost: ticks the latest each() had run for when it returned
    init_config,   \* ghost: the configuration when the run started
    cmd_tick,      \* ghost: ticks_elapsed when the phase speed was commanded
    zero_tick,     \* ghost: ticks_elapsed when zero speed was commanded
    reset_tick,    \* ghost: ticks_elapsed when the final reset_motion was called
    exit_diff,     \* ghost: distance since start seen by the poll that ended the travel
    polls_below,   \* ghost: every poll that continued the travel saw less than 500000
    phases,        \* ghost: the phases the sequencer has entered, in order
    resets,        \* ghost: calls of reset_motion in this run
    log_info,      \* the value last written by LOG_INFO (uint32), <<>> if none
    distance_updates  \* ghost: calls of update_distance_readings in this run

sensorVars == <<ADC_SR, JDR, sweep_no, sensor, sensor_src, isr_pc, frame_before,
                main_pc, args, args_read, args_src, usart_out, round_clean,
                quiet_reads, reads_agree>>

encVars == <<TIM_CNT, last_count, encoder_micrometers, moved, travelled, wraps,
             true_total, last_delta, last_travelled, polls, one_wrap_ok,
             half_range_ok>>

calVars == <<proc, cells, pc, led, clock_ticks, ticks_elapsed, travel_ticks,
             micrometers, in_motion, target_linear_speed, target_angular_speed,
             motor_control, side_control, front_control, linear_acceleration,
             linear_deceleration, max_linear_speed, locals, each_period,
             each_during, each_function, each_start, each_last, each_ret,
             sleep_start, sleep_for, sleep_ret, each_calls, each_returned,
             init_config, cmd_tick, zero_tick, reset_tick, exit_diff,
             polls_below, phases, resets, log_info, distance_updates>>

vars == <<sensorVars, encVars, calVars>>

\* ------------------------------------------------------------------------
\* Sensor sampling pipeline
\* ------------------------------------------------------------------------

\* #define SENSOR_SIDE_LEFT 0 .. SENSOR_FRONT_RIGHT 3
SENSOR_SIDE_LEFT == 0

SENSOR_SIDE_RIGHT == 1

SENSOR_FRONT_LEFT == 2

SENSOR_FRONT_RIGHT == 3

Sensors == {SENSOR_SIDE_LEFT, SENSOR_SIDE_RIGHT, SENSOR_FRONT_LEFT, SENSOR_FRONT_RIGHT}

\* Number of conversions of the injected sequence (adc_set_injected_sequence(ADC1, 4, ..)).
InjectedLength == 4

Ranks == 1..InjectedLength

Samples == 0..MaxSample

\* The cell sensor_<n> that holds logical sensor id: sensor_1 is the first
\* sensor (id 0), sensor_4 the last (id 3).
SensorCell(id) == id + 1

\* channel_array: the ADC channel converted at each rank (3=Sensor1 .. 6=Sensor4).
channel_array == [r \in Ranks |-> r + 2]

\* The sensor wired to an ADC channel, per the comment of setup_adc.
ChannelSensor(ch) == ch - 3

\* Thread mode runs only while no handler is active and none is pending:
\* the ADC interrupt is enabled at priority 0 and never masked.
ThreadMode == isr_pc = "idle" /\ "JEOC" \notin ADC_SR

\* The wheels, each with the timer that counts its encoder.
Wheels == {"left", "right"}

EncoderIdle ==
    /\ TIM_CNT = [w \in Wheels |-> 0]
    /\ last_count = [w \in Wheels |-> 0]
    /\ encoder_micrometers = [w \in Wheels |-> 0]
    /\ moved = FALSE
    /\ travelled = [w \in Wheels |-> 0]
    /\ wraps = [w \in Wheels |-> 0]
    /\ true_total = [w \in Wheels |-> 0]
    /\ last_delta = [w \in Wheels |-> 0]
    /\ last_travelled = [w \in Wheels |-> 0]
    /\ polls = 0
    /\ one_wrap_ok = [w \in Wheels |-> TRUE]
    /\ half_range_ok = [w \in Wheels |-> TRUE]

\* No local variable holds a value.
NoLocals ==
    [start_micrometers |-> 0, target_angular_speed |-> 0,
     linear_acceleration |-> 0, linear_deceleration |-> 0,
     max_linear_speed |-> 0, target_micrometers |-> 0,
     micrometers_to_stop |-> 0, clock_tick_start |-> <<0, 0>>,
     clock_tick_end |-> <<0, 0>>, i |-> 0]

\* The sequencer with no procedure started.
CalibrationIdle ==
    /\ proc = "none"
    /\ cells = 0
    /\ pc = "idle"
    /\ led = FALSE
    /\ clock_ticks = <<0, 0>>
    /\ ticks_elapsed = 0
    /\ travel_ticks = 0
    /\ micrometers = 0
    /\ in_motion = FALSE
    /\ target_linear_speed = 0
    /\ target_angular_speed = 0
    /\ motor_control = FALSE
    /\ side_control = FALSE
    /\ front_control = FALSE
    /\ linear_acceleration = 0
    /\ linear_deceleration = 0
    /\ max_linear_speed = 0
    /\ locals = NoLocals
    /\ each_period = 0
    /\ each_during = 0
    /\ each_function = "none"
    /\ each_start = <<0, 0>>
    /\ each_last = <<0, 0>>
    /\ each_ret = "none"
    /\ sleep_start = <<0, 0>>
    /\ sleep_for = 0
    /\ sleep_ret = "none"
    /\ each_calls = 0
    /\ each_returned = -1
    /\ init_config = <<0, 0, 0>>
    /\ cmd_tick = -1
    /\ zero_tick = -1
    /\ reset_tick = -1
    /\ exit_diff = -1
    /\ polls_below = TRUE
    /\ phases = <<"IDLE">>
    /\ resets = 0
    /\ log_info = <<>>
    /\ distance_updates = 0

SensorIdle ==
    /\ ADC_SR = {}
    /\ JDR = [r \in Ranks |-> 0]
    /\ sweep_no = 0
    /\ sensor = [c \in Ranks |-> 0]
    /\ sensor_src = [c \in Ranks |-> 0]
    /\ isr_pc = "idle"
    /\ frame_before = [c \in Ranks |-> 0]
    /\ main_pc = "delay"
    /\ args = [c \in Ranks |-> 0]
    /\ args_read = {}
    /\ args_src = [c \in Ranks |-> 0]
    /\ usart_out = [c \in Ranks |-> 0]
    /\ round_clean = FALSE
    /\ quiet_reads = 0
    /\ reads_agree = TRUE

SensorInit == SensorIdle /\ EncoderIdle /\ CalibrationIdle

\* The results a sweep can leave in the data registers when the previous
\* sweep left prev: between two sweeps (32 us apart) at most one of the four
\* readings moves to another sample value.
SweepResults(prev) ==
    {prev} \cup {[prev EXCEPT ![r] = v] : r \in Ranks, v \in Samples}

\* One TIM2-triggered sweep of the injected sequence: the four channels are
\* converted in rank order and JEOC is raised once, at the end of the sweep.
\* The next trigger comes 256*9 clock cycles later, long after the handler
\* of this one has returned.
adc_sweep ==
    /\ ThreadMode
    /\ sweep_no < MaxSweeps
    /\ \E v \in SweepResults(JDR) : JDR' = v
    /\ ADC_SR' = ADC_SR \cup {"JEOC", "JSTRT", "EOC"}
    /\ sweep_no' = sweep_no + 1
    /\ UNCHANGED <<sensor, sensor_src, isr_pc, frame_before, main_pc, args,
                   args_read, args_src, usart_out, round_clean, quiet_reads,
                   reads_agree>>
    /\ UNCHANGED <<encVars, calVars>>

\* ADC_SR(ADC1) &= ~ADC_SR_JEOC, the first statement of adc1_2_isr, taken
\* as soon as the completion is pending.
adc1_2_isr_clear ==
    /\ isr_pc = "idle"
    /\ "JEOC" \in ADC_SR
    /\ ADC_SR' = ADC_SR \ {"JEOC"}
    /\ isr_pc' = "read1"
    /\ frame_before' = sensor
    /\ round_clean' = FALSE
    /\ quiet_reads' = 0
    /\ UNCHANGED <<JDR, sweep_no, sensor, sensor_src, main_pc, args, args_read,
                   args_src, usart_out, reads_agree>>
    /\ UNCHANGED <<encVars, calVars>>

\* adc_read_injected(ADC1, rank)
adc_read_injected(rank) == JDR[rank]

IsrPc(k) == IF k \in Ranks THEN <<"read1", "read2", "read3", "read4">>[k] ELSE "idle"

\* Mutant of adc1_2_isr_read: the first two statements read each other's rank.
adc1_2_isr_read_swapped(k) ==
    /\ isr_pc = IsrPc(k)
    /\ sensor' = [sensor EXCEPT ![k] = adc_read_injected(IF k = 1 THEN 2 ELSE IF k = 2 THEN 1 ELSE k)]
    /\ sensor_src' = [sensor_src EXCEPT ![k] = sweep_no]
    /\ isr_pc' = IsrPc(k + 1)
    /\ frame_before' = IF k = InjectedLength THEN sensor' ELSE frame_before
    /\ UNCHANGED <<ADC_SR, JDR, sweep_no, main_pc, args, args_read, args_src,
                   usart_out, round_clean, quiet_reads, reads_agree>>
    /\ UNCHANGED <<encVars, calVars>>

\* sensor_<k> = adc_read_injected(ADC1, k), for k = 1..4 in program order;
\* the handler returns after the fourth.
adc1_2_isr_read(k) ==
    /\ isr_pc = IsrPc(k)
    /\ sensor' = [sensor EXCEPT ![k] = adc_read_injected(k)]
    /\ sensor_src' = [sensor_src EXCEPT ![k] = sweep_no]
    /\ isr_pc' = IsrPc(k + 1)
    /\ frame_before' = IF k = InjectedLength THEN sensor' ELSE frame_before
    /\ UNCHANGED <<ADC_SR, JDR, sweep_no, main_pc, args, args_read, args_src,
                   usart_out, round_clean, quiet_reads, reads_agree>>
    /\ UNCHANGED <<encVars, calVars>>

adc1_2_isr == adc1_2_isr_clear \/ \E k \in Ranks : adc1_2_isr_read(k)

\* for (int i = 0; i < 8000; i++) __asm__("nop");
main_delay ==
    /\ ThreadMode
    /\ main_pc = "delay"
    /\ main_pc' = "printf"
    /\ args_read' = {}
    /\ args' = [c \in Ranks |-> 0]
    /\ args_src' = [c \in Ranks |-> 0]
    /\ round_clean' = TRUE
    /\ UNCHANGED <<ADC_SR, JDR, sweep_no, sensor, sensor_src, isr_pc,
                   frame_before, usart_out, quiet_reads, reads_agree>>
    /\ UNCHANGED <<encVars, calVars>>

\* Mutant of main_load: the load consumes the reading, leaving the cell zero.
main_load_clearing(k) ==
    /\ ThreadMode
    /\ main_pc = "printf"
    /\ k \notin args_read
    /\ args' = [args EXCEPT ![k] = sensor[k]]
    /\ args_src' = [args_src EXCEPT ![k] = sensor_src[k]]
    /\ args_read' = args_read \cup {k}
    /\ sensor' = [sensor EXCEPT ![k] = 0]
    /\ UNCHANGED <<ADC_SR, JDR, sweep_no, sensor_src, isr_pc, frame_before,
                   main_pc, usart_out, round_clean, quiet_reads, reads_agree>>
    /\ UNCHANGED <<encVars, calVars>>

\* The load of volatile sensor_<k> for one argument of printf. C leaves the
\* order in which the arguments are evaluated unspecified, so any argument
\* not loaded yet may be loaded next.
main_load(k) ==
    /\ ThreadMode
    /\ main_pc = "printf"
    /\ k \notin args_read
    /\ args' = [args EXCEPT ![k] = sensor[k]]
    /\ args_src' = [args_src EXCEPT ![k] = sensor_src[k]]
    /\ args_read' = args_read \cup {k}
    /\ UNCHANGED <<ADC_SR, JDR, sweep_no, sensor, sensor_src, isr_pc,
                   frame_before, main_pc, usart_out, round_clean, quiet_reads,
                   reads_agree>>
    /\ UNCHANGED <<encVars, calVars>>

\* printf("S1: %d, S2: %d, S3: %d, S4: %d\n", ...) once the four arguments
\* are loaded; _write sends the line through the USART.
main_printf ==
    /\ ThreadMode
    /\ main_pc = "printf"
    /\ args_read = Ranks
    /\ usart_out' = args
    /\ main_pc' = "delay"
    /\ quiet_reads' = IF round_clean THEN (IF quiet_reads < 2 THEN quiet_reads + 1 ELSE 2) ELSE 0
    /\ reads_agree' = (reads_agree /\ ((round_clean /\ quiet_reads >= 1) => args = usart_out))
    /\ UNCHANGED <<ADC_SR, JDR, sweep_no, sensor, sensor_src, isr_pc,
                   frame_before, args, args_read, args_src, round_clean>>
    /\ UNCHANGED <<encVars, calVars>>

main == main_delay \/ (\E k \in Ranks : main_load(k)) \/ main_printf

SensorNext == adc_sweep \/ adc1_2_isr \/ main

SensorSpec == SensorInit /\ [][SensorNext]_vars

\* ------------------------------------------------------------------------
\* Claims about the sensor sampling pipeline (checked under SensorSpec)
\* ------------------------------------------------------------------------

\* C1 (as claimed): the four values printf is called with were all written
\* by one single invocation of adc1_2_isr, in every interleaving: no two of
\* them come from the handler runs of two different sweeps.
C1_FrameAtomicity ==
    (main_pc = "printf" /\ args_read = Ranks) =>
        \A i, j \in Ranks :
            (args_src[i] >= 1 /\ args_src[j] >= 1) => args_src[i] = args_src[j]

\* C8: the cells sensor_1..sensor_4 change only in steps of adc1_2_isr (never
\* in a step of main, and never once the sweeps have stopped), and a frame
\* read with no handler run since the loads of the previous frame began is
\* identical to that previous frame.
C8_StableFrame ==
    /\ []reads_agree
    /\ [][(sensor' # sensor) => (isr_pc # "idle" /\ isr_pc' # isr_pc)]_vars

\* C8 witness: after a sweep was published, two frames were read back to back
\* with no handler run in between, and they hold a nonzero reading.
C8_Witness ==
    /\ quiet_reads = 2
    /\ sweep_no >= 1
    /\ \E k \in Ranks : usart_out[k] # 0

\* C9 (as claimed): every run of the handler publishes a frame carrying a
\* sequence number one greater than the previous one. The handler writes
\* only sensor_1..sensor_4, so whatever is published is held in these cells,
\* and a frame with a new sequence number would differ from the frame
\* published before it.
C9_SequenceNumbered ==
    [][(isr_pc = "read4" /\ isr_pc' = "idle") => sensor' # frame_before]_vars

\* C10: the handler clears JEOC before it reads any rank, reads the ranks in
\* the order 1, 2, 3, 4, and once it has returned the cell of side_left holds
\* rank 1, side_right rank 2, front_left rank 3 and front_right rank 4 of the
\* sweep that raised the interrupt.
C10_HandlerStepsAndMapping ==
    /\ isr_pc # "idle" => "JEOC" \notin ADC_SR
    /\ \A k \in Ranks : isr_pc = IsrPc(k) =>
          /\ \A j \in Ranks : j < k => (sensor_src[j] = sweep_no /\ sensor[j] = JDR[j])
          /\ \A j \in Ranks : j >= k => sensor_src[j] < sweep_no
    /\ (ThreadMode /\ sweep_no > 0) =>
          /\ \A r \in Ranks :
                /\ sensor[SensorCell(ChannelSensor(channel_array[r]))] = JDR[r]
                /\ sensor_src[SensorCell(ChannelSensor(channel_array[r]))] = sweep_no
          /\ ChannelSensor(channel_array[1]) = SENSOR_SIDE_LEFT
          /\ ChannelSensor(channel_array[2]) = SENSOR_SIDE_RIGHT
          /\ ChannelSensor(channel_array[3]) = SENSOR_FRONT_LEFT
          /\ ChannelSensor(channel_array[4]) = SENSOR_FRONT_RIGHT

\* C10 witness: the handler has returned from the second sweep and the two
\* side cells hold different readings.
C10_Witness ==
    /\ ThreadMode
    /\ sweep_no = 2
    /\ sensor[SensorCell(SENSOR_SIDE_LEFT)] # sensor[SensorCell(SENSOR_SIDE_RIGHT)]

\* ------------------------------------------------------------------------
\* Encoder distance tracker
\* ------------------------------------------------------------------------

\* Mutant of EncoderPeriod: the auto-reload value of the PWM timer.
EncoderPeriod_Pwm == 1000

\* timer_set_period(timer_peripheral, 0xFFFF): the counter runs 0..0xFFFF.
EncoderPeriod == 65535

\* Number of values of the counter: it wraps from EncoderPeriod to 0 counting
\* up and from 0 to EncoderPeriod counting down.
CounterModulus == EncoderPeriod + 1

\* 2^16 and 2^15, the arithmetic of the 16-bit difference.
TwoTo16 == 65536

TwoTo15 == 32768

\* Calibrated micrometers per encoder count.
MICROMETERS_PER_COUNT == 8

\* Signed wheel movements (in counts) between two polls that the model tries:
\* one count, just below, at and beyond half the counter range, both ways.
WheelMoves ==
    {-(TwoTo15 + MoveOvershoot), -TwoTo15, -1, 1, TwoTo15 - 1, TwoTo15,
     TwoTo15 + MoveOvershoot}

\* The counter after moving d counts from c (encoder interface mode 3: the
\* counter follows the wheel up and down and wraps at its period).
CounterAfter(c, d) == (c + d) % CounterModulus

\* How many times the counter wraps while moving d counts from c.
WrapsDuring(c, d) ==
    LET q == (c + d) \div CounterModulus IN IF q < 0 THEN -q ELSE q

\* The wheels turn between two polls: left by dl counts, right by dr counts.
wheel_move(dl, dr) ==
    /\ ~moved
    /\ polls < MaxPolls
    /\ LET d == [w \in Wheels |-> IF w = "left" THEN dl ELSE dr] IN
         /\ TIM_CNT' = [w \in Wheels |-> CounterAfter(TIM_CNT[w], d[w])]
         /\ travelled' = d
         /\ wraps' = [w \in Wheels |-> WrapsDuring(TIM_CNT[w], d[w])]
    /\ moved' = TRUE
    /\ UNCHANGED <<last_count, encoder_micrometers, true_total, last_delta,
                   last_travelled, polls, one_wrap_ok, half_range_ok>>
    /\ UNCHANGED <<sensorVars, calVars>>

\* read_encoder_left: timer_get_counter(TIM1)
read_encoder_left == TIM_CNT["left"]

\* read_encoder_right: timer_get_counter(TIM4)
read_encoder_right == TIM_CNT["right"]

read_encoder(w) == IF w = "left" THEN read_encoder_left ELSE read_encoder_right

\* delta = (raw_new - raw_old) mod 2^16, read as a signed 16-bit count:
\* forward motion, which increases the counter, gives a positive delta.
counter_delta(raw_new, raw_old) ==
    LET u == (raw_new - raw_old) % TwoTo16 IN
    IF u >= TwoTo15 THEN u - TwoTo16 ELSE u

\* poll(): read both counters, add the scaled delta of each wheel to its
\* accumulator and keep the raw value for the next delta.
poll ==
    /\ polls < MaxPolls
    /\ LET delta == [w \in Wheels |-> counter_delta(read_encoder(w), last_count[w])] IN
         /\ encoder_micrometers' =
                [w \in Wheels |-> encoder_micrometers[w] + delta[w] * MICROMETERS_PER_COUNT]
         /\ last_delta' = delta
    /\ last_count' = [w \in Wheels |-> read_encoder(w)]
    /\ last_travelled' = travelled
    /\ true_total' = [w \in Wheels |-> true_total[w] + travelled[w]]
    /\ one_wrap_ok' = [w \in Wheels |-> one_wrap_ok[w] /\ wraps[w] <= 1]
    /\ half_range_ok' =
           [w \in Wheels |-> half_range_ok[w] /\ travelled[w] >= -TwoTo15
                                              /\ travelled[w] < TwoTo15]
    /\ travelled' = [w \in Wheels |-> 0]
    /\ wraps' = [w \in Wheels |-> 0]
    /\ moved' = FALSE
    /\ polls' = polls + 1
    /\ UNCHANGED TIM_CNT
    /\ UNCHANGED <<sensorVars, calVars>>

\* The encoder part of reset_motion(): the current raw counters become the
\* baseline and both accumulators are zeroed.
reset_encoders ==
    /\ polls >= 1
    /\ ~moved
    /\ last_count' = [w \in Wheels |-> read_encoder(w)]
    /\ encoder_micrometers' = [w \in Wheels |-> 0]
    /\ travelled' = [w \in Wheels |-> 0]
    /\ wraps' = [w \in Wheels |-> 0]
    /\ moved' = FALSE
    /\ true_total' = [w \in Wheels |-> 0]
    /\ last_delta' = [w \in Wheels |-> 0]
    /\ last_travelled' = [w \in Wheels |-> 0]
    /\ one_wrap_ok' = [w \in Wheels |-> TRUE]
    /\ half_range_ok' = [w \in Wheels |-> TRUE]
    /\ UNCHANGED <<TIM_CNT, polls>>
    /\ UNCHANGED <<sensorVars, calVars>>

EncoderInit == SensorIdle /\ EncoderIdle /\ CalibrationIdle

EncoderNext ==
    \/ \E dl, dr \in WheelMoves : wheel_move(dl, dr)
    \/ poll
    \/ reset_encoders

EncoderSpec == EncoderInit /\ [][EncoderNext]_vars

\* ------------------------------------------------------------------------
\* Claims about the encoder distance tracker (checked under EncoderSpec)
\* ------------------------------------------------------------------------

\* What the latest poll and the accumulator of wheel w must show when the
\* tracker is exact: the delta is the true count traversed, and the
\* cumulative distance is the true count since the reset, scaled.
TrackerExact(w) ==
    /\ last_delta[w] = last_travelled[w]
    /\ encoder_micrometers[w] = true_total[w] * MICROMETERS_PER_COUNT

\* C3 (as claimed): if at most one wrap of the counter occurred between any
\* two successive readings, the delta of each poll is the true number of
\* counts traversed and the cumulative distance is the scaled sum of them.
C3_AtMostOneWrap ==
    \A w \in Wheels : one_wrap_ok[w] => TrackerExact(w)

\* C3 (amended): if the wheel traversed at least -2^15 and less than 2^15
\* counts between any two successive readings, the delta of each poll is the
\* true number of counts traversed and the cumulative distance is the scaled
\* sum of them, however many times the counter wrapped over the run.
C3_WithinHalfRange ==
    \A w \in Wheels : half_range_ok[w] => TrackerExact(w)

\* C3 witness: two polls, each after a movement within half the range, with
\* the counter wrapped in between and a nonzero distance accumulated.
C3_Witness ==
    /\ polls = 2
    /\ half_range_ok["left"]
    /\ true_total["left"] = -2
    /\ last_count["left"] = EncoderPeriod - 1
    /\ encoder_micrometers["left"] = -2 * MICROMETERS_PER_COUNT

\* ------------------------------------------------------------------------
\* Inputs of a calibration run
\* ------------------------------------------------------------------------

MicrometerSteps == {0, StepShort, StepLong}

\* Initial <<linear acceleration, linear deceleration, maximum linear speed>>
\* (mm/s^2, mm/s^2, mm/s): the values the procedures override, other values,
\* and a configuration with no speed.
ConfigInputs == {<<4000, 4000, 400>>, <<2000, 3000, 600>>, <<5000, 1000, 0>>}

\* Initial values of the tick counter: zero, and shortly before its wrap.
ClockStarts == {<<0, 0>>, <<TwoTo16 - 1, TwoTo16 - ClockWrapLead>>}

\* The same for run_distances_profiling, which lasts a few ticks only.
ProbeClockStarts == {<<0, 0>>, <<TwoTo16 - 1, TwoTo16 - ProbeWrapLead>>}

\* ------------------------------------------------------------------------
\* Tick clock, each and sleep_ticks
\* ------------------------------------------------------------------------

eachVars == <<each_period, each_during, each_function, each_start, each_last,
              each_ret, each_calls, each_returned>>
sleepVars == <<sleep_start, sleep_for, sleep_ret>>

configVars == <<linear_acceleration, linear_deceleration, max_linear_speed>>

controlVars == <<motor_control, side_control, front_control>>

speedVars == <<target_linear_speed, target_angular_speed>>

clockVars == <<led, clock_ticks, ticks_elapsed, travel_ticks>>

runVars == <<proc, cells, init_config>>

probeVars == <<log_info, distance_updates>>

phaseVars == <<cmd_tick, zero_tick, reset_tick>>

travelVars == <<exit_diff, polls_below>>

\* The tick counter is an unsigned 32-bit value, held as <<high, low>>
\* 16-bit halves: its value is high * 2^16 + low.
U32(n) == <<n \div TwoTo16, n % TwoTo16>>

\* a + 1 in unsigned 32-bit arithmetic.
U32Inc(a) ==
    IF a[2] = TwoTo16 - 1 THEN <<(a[1] + 1) % TwoTo16, 0>> ELSE <<a[1], a[2] + 1>>

\* Mutant of U32Sub: the halves are subtracted without the borrow.
U32Sub_NoBorrow(a, b) ==
    <<(a[1] - b[1]) % TwoTo16, (a[2] - b[2]) % TwoTo16>>

\* a - b in unsigned 32-bit arithmetic.
U32Sub(a, b) ==
    LET borrow == IF a[2] < b[2] THEN 1 ELSE 0 IN
    <<(a[1] - b[1] - borrow) % TwoTo16, (a[2] - b[2]) % TwoTo16>>

\* a >= n for an unsigned 32-bit a and a natural n below 2^31.
U32AtLeast(a, n) ==
    \/ a[1] > n \div TwoTo16
    \/ a[1] = n \div TwoTo16 /\ a[2] >= n % TwoTo16

\* The value of a, when it is below 2^31.
U32Value(a) == IF a[1] < TwoTo15 THEN a[1] * TwoTo16 + a[2] ELSE -1

\* clock_ticks - t: ticks elapsed since the counter read t.
TicksSince(t) == U32Sub(clock_ticks, t)

\* Mutant of EachDue: the wait always lasts the whole interval.
EachDue_WholeInterval == U32AtLeast(TicksSince(each_last), each_period)

\* The interval of the running each() has elapsed, or its total has.
EachDue ==
    \/ U32AtLeast(TicksSince(each_last), each_period)
    \/ U32AtLeast(TicksSince(each_start), each_during)

SleepDue == U32AtLeast(TicksSince(sleep_start), sleep_for)

\* get_encoder_average_micrometers()
get_encoder_average_micrometers == micrometers

\* Positions at which the foreground waits for the vehicle to cover a
\* distance, with no limit on the time it takes.
DistanceWaits == {"accelerate", "decelerate", "front_166", "front_168"}

InTravel == pc \in DistanceWaits \/ (pc = "sleep" /\ sleep_ret = "lin_21")

\* The foreground is busy-waiting, so that time passes: inside each and
\* sleep_ticks until they are due, and inside the distance-based loops.
Waiting ==
    \/ pc = "each_wait" /\ ~EachDue
    \/ pc = "sleep" /\ ~SleepDue
    \/ pc \in {"accelerate", "decelerate"}
       /\ get_encoder_average_micrometers < locals.target_micrometers
    \/ pc \in {"front_166", "front_168"}
    \/ pc = "dist_69"

\* Distances the vehicle can cover in one tick: none unless a linear
\* movement was commanded since the last reset.
StepsNow ==
    IF in_motion
    THEN {d \in MicrometerSteps : micrometers + d <= MaxMicrometers}
    ELSE {0}

\* sys_tick_handler: gpio_toggle(GPIOC, GPIO13)
sys_tick_handler == led' = ~led

\* The calibration state but the LED.
calVarsButLed == <<pc, clock_ticks, ticks_elapsed, travel_ticks, micrometers,
                   in_motion, locals, eachVars, sleepVars, configVars,
                   controlVars, speedVars, runVars, probeVars, phases, resets, phaseVars,
                   travelVars>>

\* Mutant of sys_tick_isr: the tick handler also samples the first rank
\* into sensor_1.
sys_tick_isr_Sampling ==
    /\ ThreadMode
    /\ sys_tick_handler
    /\ sensor' = [sensor EXCEPT ![1] = 1 - JDR[1]]
    /\ UNCHANGED <<ADC_SR, JDR, sweep_no, sensor_src, isr_pc, frame_before,
                   main_pc, args, args_read, args_src, usart_out, round_clean,
                   quiet_reads, reads_agree>>
    /\ UNCHANGED <<encVars, calVarsButLed>>

\* The SysTick exception in the program of part_001: sys_tick_handler runs
\* between two instructions of main (it has the priority of adc1_2_isr, so
\* neither handler preempts the other) and returns.
sys_tick_isr ==
    /\ ThreadMode
    /\ sys_tick_handler
    /\ UNCHANGED <<sensorVars, encVars, calVarsButLed>>

\* The program of part_001: the ADC sweeps, both of its handlers and main.
BoardNext == SensorNext \/ sys_tick_isr

BoardSpec == SensorInit /\ [][BoardNext]_vars

\* TickClock: the counter advances by one at every tick interrupt.
tick_clock == clock_ticks' = U32Inc(clock_ticks)

\* One period of the tick timer: the interrupt is served and the vehicle
\* has covered d micrometers meanwhile.
sys_tick(d) ==
    /\ Waiting
    /\ InTravel => travel_ticks < MaxTravelTicks
    /\ pc = "dist_69" => ticks_elapsed < MaxProbeTicks
    /\ d \in StepsNow
    /\ sys_tick_handler
    /\ tick_clock
    /\ ticks_elapsed' = ticks_elapsed + 1
    /\ travel_ticks' = IF InTravel THEN travel_ticks + 1 ELSE travel_ticks
    /\ micrometers' = micrometers + d
    /\ UNCHANGED <<pc, in_motion, locals, eachVars, sleepVars, configVars,
                   controlVars, speedVars, runVars, probeVars, phases, resets,
                   phaseVars, travelVars>>
    /\ UNCHANGED <<sensorVars, encVars>>

\* Call of each(period, function, during), to continue at ret on return.
EachCall(period, function, during, ret) ==
    /\ each_period' = period
    /\ each_during' = during
    /\ each_function' = function
    /\ each_start' = clock_ticks
    /\ each_last' = clock_ticks
    /\ each_ret' = ret
    /\ each_calls' = 0
    /\ each_returned' = -1
    /\ pc' = "each_invoke"

\* each: the function is invoked, at once after the call and after every
\* wait for the interval.
each_invoke ==
    /\ pc = "each_invoke"
    /\ each_last' = clock_ticks
    /\ each_calls' = each_calls + 1
    /\ pc' = "each_wait"
    /\ UNCHANGED <<each_period, each_during, each_function, each_start,
                   each_ret, each_returned>>
    /\ UNCHANGED <<micrometers, in_motion, locals, sleepVars, configVars,
                   controlVars, speedVars, clockVars, runVars, probeVars,
                   phases, resets, phaseVars, travelVars>>
    /\ UNCHANGED <<sensorVars, encVars>>

\* each: the wait ends when the interval has elapsed or, cutting the last
\* interval short, when the total has; each returns once the total has.
each_wake ==
    /\ pc = "each_wait"
    /\ EachDue
    /\ IF U32AtLeast(TicksSince(each_start), each_during)
       THEN /\ pc' = each_ret
            /\ each_returned' = U32Value(TicksSince(each_start))
       ELSE /\ pc' = "each_invoke"
            /\ UNCHANGED each_returned
    /\ UNCHANGED <<each_period, each_during, each_function, each_start,
                   each_last, each_ret, each_calls>>
    /\ UNCHANGED <<micrometers, in_motion, locals, sleepVars, configVars,
                   controlVars, speedVars, clockVars, runVars, probeVars,
                   phases, resets, phaseVars, travelVars>>
    /\ UNCHANGED <<sensorVars, encVars>>

each == each_invoke \/ each_wake

\* Call of sleep_ticks(ticks), to continue at ret on return.
SleepCall(ticks, ret) ==
    /\ sleep_start' = clock_ticks
    /\ sleep_for' = ticks
    /\ sleep_ret' = ret
    /\ pc' = "sleep"

\* sleep_ticks returns once the ticks have elapsed.
sleep_ticks ==
    /\ pc = "sleep"
    /\ SleepDue
    /\ pc' = sleep_ret
    /\ UNCHANGED <<micrometers, in_motion, locals, eachVars, sleepVars,
                   configVars, controlVars, speedVars, clockVars, runVars,
                   probeVars, phases, resets, phaseVars, travelVars>>
    /\ UNCHANGED <<sensorVars, encVars>>

\* ------------------------------------------------------------------------
\* Motion controller interface
\* ------------------------------------------------------------------------

\* get_max_linear_speed()
get_max_linear_speed == max_linear_speed

\* Mutant of disable_walls_control: only the side sensors control is put off.
disable_walls_control_SideOnly ==
    /\ side_control' = FALSE
    /\ front_control' = front_control

\* disable_walls_control(): side and front sensors control off.
disable_walls_control ==
    /\ side_control' = FALSE
    /\ front_control' = FALSE

\* enable_motor_control()
enable_motor_control == motor_control' = TRUE

\* Mutant of SetTargetSpeeds: a zero angular speed command is dropped.
SetTargetSpeeds_AngularKept(a, l) ==
    /\ target_angular_speed' = (IF a = 0 THEN target_angular_speed ELSE a)
    /\ target_linear_speed' = l
    /\ in_motion' = (in_motion \/ l # 0)

\* set_target_angular_speed(a); set_target_linear_speed(l)
SetTargetSpeeds(a, l) ==
    /\ target_angular_speed' = a
    /\ target_linear_speed' = l
    /\ in_motion' = (in_motion \/ l # 0)

\* reset_motion(): the distance accumulators restart from zero.
reset_motion ==
    /\ micrometers' = 0
    /\ in_motion' = FALSE
    /\ resets' = resets + 1

\* The sequencer enters the phases seq, in order.
EnterPhases(seq) == phases' = phases \o seq

\* ------------------------------------------------------------------------
\* run_linear_speed_profile
\* ------------------------------------------------------------------------

\* Distance of the travel phase, micrometers.
LinearTravelMicrometers == 500000

\* Mutant of KeepTravelling: the loop also continues at exactly the distance.
KeepTravelling_Inclusive(diff) == diff <= LinearTravelMicrometers

\* get_encoder_average_micrometers() - start_micrometers < 500000
KeepTravelling(diff) == diff < LinearTravelMicrometers

LinearBaselinePeriod == 10

\* Mutant of LinearBaselineTicks: a baseline of ten periods.
LinearBaselineTicks_Short == 10 * LinearBaselinePeriod

LinearBaselineTicks == 1000

LinearSettlePeriod == 1

LinearSettleTicks == 2000

\* disable_walls_control(); enable_motor_control();
\* each(10, log_linear_speed, 1000);
lin_15 ==
    /\ pc = "idle"
    /\ proc = "linear"
    /\ disable_walls_control
    /\ enable_motor_control
    /\ EachCall(LinearBaselinePeriod, "log_linear_speed", LinearBaselineTicks, "lin_18")
    /\ UNCHANGED <<micrometers, in_motion, locals, sleepVars, configVars,
                   speedVars, clockVars, runVars, probeVars, phases, resets,
                   phaseVars, travelVars>>
    /\ UNCHANGED <<sensorVars, encVars>>

\* set_target_angular_speed(0.); set_target_linear_speed(get_max_linear_speed());
\* start_micrometers = get_encoder_average_micrometers();
lin_18 ==
    /\ pc = "lin_18"
    /\ SetTargetSpeeds(0, get_max_linear_speed)
    /\ locals' = [locals EXCEPT !.start_micrometers = get_encoder_average_micrometers]
    /\ cmd_tick' = ticks_elapsed
    /\ pc' = "lin_21"
    /\ EnterPhases(<<"RAMP_UP", "HOLD_TRAVEL">>)
    /\ UNCHANGED <<micrometers, eachVars, sleepVars, configVars, controlVars,
                   clockVars, runVars, probeVars, resets, zero_tick,
                   reset_tick, travelVars>>
    /\ UNCHANGED <<sensorVars, encVars>>

\* while (get_encoder_average_micrometers() - start_micrometers < 500000) {
\*         log_linear_speed(); sleep_ticks(1); }
lin_21 ==
    /\ pc = "lin_21"
    /\ LET diff == get_encoder_average_micrometers - locals.start_micrometers IN
       IF KeepTravelling(diff)
       THEN /\ SleepCall(1, "lin_21")
            /\ polls_below' = (polls_below /\ diff < 500000)
            /\ UNCHANGED exit_diff
       ELSE /\ pc' = "lin_25"
            /\ exit_diff' = diff
            /\ UNCHANGED <<polls_below, sleepVars>>
    /\ UNCHANGED <<micrometers, in_motion, locals, eachVars, configVars,
                   controlVars, speedVars, clockVars, runVars, probeVars,
                   phases, resets, phaseVars>>
    /\ UNCHANGED <<sensorVars, encVars>>

\* set_target_angular_speed(0.); set_target_linear_speed(0.);
\* each(1, log_linear_speed, 2000);
lin_25 ==
    /\ pc = "lin_25"
    /\ SetTargetSpeeds(0, 0)
    /\ zero_tick' = ticks_elapsed
    /\ EachCall(LinearSettlePeriod, "log_linear_speed", LinearSettleTicks, "lin_28")
    /\ EnterPhases(<<"RAMP_DOWN", "SETTLE">>)
    /\ UNCHANGED <<micrometers, locals, sleepVars, configVars, controlVars,
                   clockVars, runVars, probeVars, resets, cmd_tick, reset_tick,
                   travelVars>>
    /\ UNCHANGED <<sensorVars, encVars>>

\* reset_motion();
lin_28 ==
    /\ pc = "lin_28"
    /\ reset_motion
    /\ reset_tick' = ticks_elapsed
    /\ pc' = "done"
    /\ EnterPhases(<<"IDLE">>)
    /\ UNCHANGED <<locals, eachVars, sleepVars, configVars, controlVars,
                   speedVars, clockVars, runVars, probeVars, cmd_tick,
                   zero_tick, travelVars>>
    /\ UNCHANGED <<sensorVars, encVars>>

run_linear_speed_profile == lin_15 \/ lin_18 \/ lin_21 \/ lin_25 \/ lin_28

\* ------------------------------------------------------------------------
\* run_angular_speed_profile and run_static_turn_right_profile
\* ------------------------------------------------------------------------

\* PI, in units of 10^-5 rad (angular speeds are in 10^-5 rad/s).
PI == 314159

\* float target_angular_speed = 4 * PI: the nearest float lies a little
\* below or a little above the real product.
FloatRounded(x) == {x - 1, x + 1}

\* Mutant of AngularHoldTicks: the duration taken in seconds, not in ticks.
AngularHoldTicks_Seconds(speed) == (3 * PI) \div speed

\* 1000 * (3 * PI) / target_angular_speed, truncated to uint32_t.
AngularHoldTicks(speed) == (1000 * (3 * PI)) \div speed

\* 1000 * (PI / 2.) / target_angular_speed, truncated to uint32_t.
TurnHoldTicks(speed) == ((1000 * PI) \div 2) \div speed

AngularPeriod == 10

AngularBaselineTicks == 1000

AngularSettleTicks == 2000

\* Mutant of TurnSettleTicks: the settle duration of the angular profile.
TurnSettleTicks_Angular == AngularSettleTicks

TurnSettleTicks == 200

\* float target_angular_speed = 4 * PI; disable_walls_control();
\* enable_motor_control(); each(10, log_angular_speed, 1000);
ang_43 ==
    /\ pc = "idle"
    /\ proc \in {"angular", "static_turn"}
    /\ \E speed \in FloatRounded(4 * PI) :
         locals' = [locals EXCEPT !.target_angular_speed = speed]
    /\ disable_walls_control
    /\ enable_motor_control
    /\ EachCall(AngularPeriod, "log_angular_speed", AngularBaselineTicks, "ang_48")
    /\ UNCHANGED <<micrometers, in_motion, sleepVars, configVars, speedVars,
                   clockVars, runVars, probeVars, phases, resets, phaseVars,
                   travelVars>>
    /\ UNCHANGED <<sensorVars, encVars>>

\* set_target_angular_speed(target_angular_speed); set_target_linear_speed(0.);
\* each(10, log_angular_speed, <hold ticks>);
ang_48 ==
    /\ pc = "ang_48"
    /\ SetTargetSpeeds(locals.target_angular_speed, 0)
    /\ cmd_tick' = ticks_elapsed
    /\ EachCall(AngularPeriod, "log_angular_speed",
                IF proc = "angular"
                THEN AngularHoldTicks(locals.target_angular_speed)
                ELSE TurnHoldTicks(locals.target_angular_speed),
                "ang_51")
    /\ EnterPhases(<<"RAMP_UP", "HOLD_TRAVEL">>)
    /\ UNCHANGED <<micrometers, locals, sleepVars, configVars, controlVars,
                   clockVars, runVars, probeVars, resets, zero_tick,
                   reset_tick, travelVars>>
    /\ UNCHANGED <<sensorVars, encVars>>

\* set_target_angular_speed(0.); set_target_linear_speed(0.);
\* each(10, log_angular_speed, 2000) (200 in the static turn);
ang_51 ==
    /\ pc = "ang_51"
    /\ SetTargetSpeeds(0, 0)
    /\ zero_tick' = ticks_elapsed
    /\ EachCall(AngularPeriod, "log_angular_speed",
                IF proc = "angular" THEN AngularSettleTicks ELSE TurnSettleTicks,
                "ang_54")
    /\ EnterPhases(<<"RAMP_DOWN", "SETTLE">>)
    /\ UNCHANGED <<micrometers, locals, sleepVars, configVars, controlVars,
                   clockVars, runVars, probeVars, resets, cmd_tick, reset_tick,
                   travelVars>>
    /\ UNCHANGED <<sensorVars, encVars>>

\* reset_motion();
ang_54 ==
    /\ pc = "ang_54"
    /\ reset_motion
    /\ reset_tick' = ticks_elapsed
    /\ pc' = "done"
    /\ EnterPhases(<<"IDLE">>)
    /\ UNCHANGED <<locals, eachVars, sleepVars, configVars, controlVars,
                   speedVars, clockVars, runVars, probeVars, cmd_tick,
                   zero_tick, travelVars>>
    /\ UNCHANGED <<sensorVars, encVars>>

run_angular_speed_profile == ang_43 \/ ang_48 \/ ang_51 \/ ang_54

\* ------------------------------------------------------------------------
\* run_micrometers_per_count_calibration
\* ------------------------------------------------------------------------

\* Cell dimension, wall width and the offsets of the vehicle's tail and nose
\* from its wheel axis, micrometers.
CELL_DIMENSION == 180000

WALL_WIDTH == 12000

MOUSE_TAIL == 35000

MOUSE_HEAD == 45000

\* The values the calibration procedures set: 4. m/s^2 and 0.4 m/s.
CalibrationAcceleration == 4000

CalibrationDeceleration == 4000

CalibrationMaxSpeed == 400

\* set_linear_acceleration(4.); set_linear_deceleration(4.);
\* set_max_linear_speed(0.4);
mpc_override ==
    /\ linear_acceleration' = CalibrationAcceleration
    /\ linear_deceleration' = CalibrationDeceleration
    /\ max_linear_speed' = CalibrationMaxSpeed

\* Mutant of mpc_restore: the deceleration is set from the saved acceleration.
mpc_restore_crossed ==
    /\ linear_acceleration' = locals.linear_acceleration
    /\ linear_deceleration' = locals.linear_acceleration
    /\ max_linear_speed' = locals.max_linear_speed

\* set_linear_acceleration(linear_acceleration);
\* set_linear_deceleration(linear_deceleration);
\* set_max_linear_speed(max_linear_speed);
mpc_restore ==
    /\ linear_acceleration' = locals.linear_acceleration
    /\ linear_deceleration' = locals.linear_deceleration
    /\ max_linear_speed' = locals.max_linear_speed

\* The locals are read from the getters, then the three values are set.
mpc_111 ==
    /\ pc = "idle"
    /\ proc = "mpc"
    /\ locals' = [locals EXCEPT !.linear_acceleration = linear_acceleration,
                                !.linear_deceleration = linear_deceleration,
                                !.max_linear_speed = max_linear_speed]
    /\ mpc_override
    /\ pc' = "mpc_119"
    /\ UNCHANGED <<micrometers, in_motion, eachVars, sleepVars, controlVars,
                   speedVars, clockVars, runVars, probeVars, phases, resets,
                   phaseVars, travelVars>>
    /\ UNCHANGED <<sensorVars, encVars>>

\* Mutant of mpc_119: the procedure does not call reset_motion on entry.
mpc_119_NoReset ==
    /\ pc = "mpc_119"
    /\ enable_motor_control
    /\ side_control' = TRUE
    /\ front_control' = FALSE
    /\ pc' = "mpc_126"
    /\ UNCHANGED <<micrometers, in_motion, locals, eachVars, sleepVars,
                   configVars, speedVars, clockVars, runVars, probeVars,
                   phases, resets, phaseVars, travelVars>>
    /\ UNCHANGED <<sensorVars, encVars>>

\* reset_motion(); side_sensors_calibration(); enable_motor_control();
\* side_sensors_control(true); front_sensors_control(false);
mpc_119 ==
    /\ pc = "mpc_119"
    /\ reset_motion
    /\ enable_motor_control
    /\ side_control' = TRUE
    /\ front_control' = FALSE
    /\ pc' = "mpc_126"
    /\ UNCHANGED <<locals, eachVars, sleepVars, configVars, speedVars,
                   clockVars, runVars, probeVars, phases, phaseVars,
                   travelVars>>
    /\ UNCHANGED <<sensorVars, encVars>>

\* accelerate(get_encoder_average_micrometers(),
\*            CELL_DIMENSION * cells - WALL_WIDTH / 2. - MOUSE_TAIL);
mpc_126 ==
    /\ pc = "mpc_126"
    /\ locals' = [locals EXCEPT
                    !.start_micrometers = get_encoder_average_micrometers,
                    !.target_micrometers = get_encoder_average_micrometers +
                        CELL_DIMENSION * cells - WALL_WIDTH \div 2 - MOUSE_TAIL]
    /\ SetTargetSpeeds(target_angular_speed, max_linear_speed)
    /\ cmd_tick' = ticks_elapsed
    /\ pc' = "accelerate"
    /\ EnterPhases(<<"RAMP_UP", "HOLD_TRAVEL">>)
    /\ UNCHANGED <<micrometers, eachVars, sleepVars, configVars, controlVars,
                   clockVars, runVars, probeVars, resets, zero_tick,
                   reset_tick, travelVars>>
    /\ UNCHANGED <<sensorVars, encVars>>

\* The ramp helper has covered its distance.
RampReached == get_encoder_average_micrometers >= locals.target_micrometers

\* accelerate returns once the distance is covered.
accelerate ==
    /\ pc = "accelerate"
    /\ RampReached
    /\ pc' = "mpc_128"
    /\ UNCHANGED <<micrometers, in_motion, locals, eachVars, sleepVars,
                   configVars, controlVars, speedVars, clockVars, runVars,
                   probeVars, phases, resets, phaseVars, travelVars>>
    /\ UNCHANGED <<sensorVars, encVars>>

\* disable_walls_control();
\* decelerate(get_encoder_average_micrometers(),
\*            CELL_DIMENSION - WALL_WIDTH / 2. - MOUSE_HEAD, 0.);
mpc_128 ==
    /\ pc = "mpc_128"
    /\ disable_walls_control
    /\ locals' = [locals EXCEPT
                    !.start_micrometers = get_encoder_average_micrometers,
                    !.target_micrometers = get_encoder_average_micrometers +
                        CELL_DIMENSION - WALL_WIDTH \div 2 - MOUSE_HEAD]
    /\ pc' = "decelerate"
    /\ EnterPhases(<<"RAMP_DOWN">>)
    /\ UNCHANGED <<micrometers, in_motion, eachVars, sleepVars, configVars,
                   motor_control, speedVars, clockVars, runVars, probeVars,
                   resets, phaseVars, travelVars>>
    /\ UNCHANGED <<sensorVars, encVars>>

\* decelerate returns once the distance is covered, at the target speed 0.
decelerate ==
    /\ pc = "decelerate"
    /\ RampReached
    /\ SetTargetSpeeds(target_angular_speed, 0)
    /\ zero_tick' = ticks_elapsed
    /\ pc' = "mpc_131"
    /\ UNCHANGED <<micrometers, locals, eachVars, sleepVars, configVars,
                   controlVars, clockVars, runVars, probeVars, phases, resets,
                   cmd_tick, reset_tick, travelVars>>
    /\ UNCHANGED <<sensorVars, encVars>>

\* reset_control_errors(); the three values are set back; reset_motion();
mpc_131 ==
    /\ pc = "mpc_131"
    /\ mpc_restore
    /\ reset_motion
    /\ reset_tick' = ticks_elapsed
    /\ pc' = "done"
    /\ EnterPhases(<<"SETTLE", "IDLE">>)
    /\ UNCHANGED <<locals, eachVars, sleepVars, controlVars, speedVars,
                   clockVars, runVars, probeVars, cmd_tick, zero_tick,
                   travelVars>>
    /\ UNCHANGED <<sensorVars, encVars>>

run_micrometers_per_count_calibration ==
    mpc_111 \/ mpc_119 \/ mpc_126 \/ accelerate \/ mpc_128 \/ decelerate \/ mpc_131

\* ------------------------------------------------------------------------
\* run_front_sensors_calibration
\* ------------------------------------------------------------------------

\* 1.3 * CELL_DIMENSION * MICROMETERS_PER_METER, micrometers.
FrontTravelMicrometers == (13 * CELL_DIMENSION) \div 10

\* set_target_linear_speed(.3), mm/s.
FrontLinearSpeed == 300

FrontSettlePeriod == 2

FrontSettleTicks == 200

\* Distance needed to come from speed (mm/s) to rest at deceleration
\* (mm/s^2), micrometers.
MicrometersToRest(speed, deceleration) ==
    (speed * speed * 1000) \div (2 * deceleration)

\* Mutant of required_micrometers_to_speed_0: the query is made before the
\* speed command, from the target speed in force until then.
required_micrometers_to_speed_0_before ==
    MicrometersToRest(target_linear_speed, linear_deceleration)

\* required_micrometers_to_speed(0.): the distance needed to come from the
\* current target speed to rest at the configured deceleration. It is called
\* after set_target_linear_speed(.3).
required_micrometers_to_speed_0 ==
    MicrometersToRest(target_linear_speed', linear_deceleration)

\* float linear_acceleration = get_linear_acceleration();
\* disable_walls_control(); enable_motor_control(); set_linear_acceleration(4.);
front_152 ==
    /\ pc = "idle"
    /\ proc = "front"
    /\ locals' = [locals EXCEPT !.linear_acceleration = linear_acceleration]
    /\ disable_walls_control
    /\ enable_motor_control
    /\ linear_acceleration' = CalibrationAcceleration
    /\ pc' = "front_161"
    /\ UNCHANGED <<micrometers, in_motion, eachVars, sleepVars,
                   linear_deceleration, max_linear_speed, speedVars, clockVars,
                   runVars, probeVars, phases, resets, phaseVars, travelVars>>
    /\ UNCHANGED <<sensorVars, encVars>>

\* target_micrometers = get_encoder_average_micrometers() + 1.3 * CELL_DIMENSION * ...;
\* set_target_angular_speed(0.); set_target_linear_speed(.3);
\* micrometers_to_stop = (int32_t)required_micrometers_to_speed(0.);
front_161 ==
    /\ pc = "front_161"
    /\ SetTargetSpeeds(0, FrontLinearSpeed)
    /\ locals' = [locals EXCEPT
                    !.target_micrometers =
                        get_encoder_average_micrometers + FrontTravelMicrometers,
                    !.micrometers_to_stop = required_micrometers_to_speed_0]
    /\ cmd_tick' = ticks_elapsed
    /\ pc' = "front_166"
    /\ EnterPhases(<<"RAMP_UP", "HOLD_TRAVEL">>)
    /\ UNCHANGED <<micrometers, eachVars, sleepVars, configVars, controlVars,
                   clockVars, runVars, probeVars, resets, zero_tick,
                   reset_tick, travelVars>>
    /\ UNCHANGED <<sensorVars, encVars>>

\* while (get_encoder_average_micrometers() < target_micrometers - micrometers_to_stop)
front_166 ==
    /\ pc = "front_166"
    /\ pc' = IF get_encoder_average_micrometers <
                    locals.target_micrometers - locals.micrometers_to_stop
             THEN "front_168"
             ELSE "front_169"
    /\ UNCHANGED <<micrometers, in_motion, locals, eachVars, sleepVars,
                   configVars, controlVars, speedVars, clockVars, runVars,
                   probeVars, phases, resets, phaseVars, travelVars>>
    /\ UNCHANGED <<sensorVars, encVars>>

\*         log_front_sensors_calibration();
front_168 ==
    /\ pc = "front_168"
    /\ pc' = "front_166"
    /\ UNCHANGED <<micrometers, in_motion, locals, eachVars, sleepVars,
                   configVars, controlVars, speedVars, clockVars, runVars,
                   probeVars, phases, resets, phaseVars, travelVars>>
    /\ UNCHANGED <<sensorVars, encVars>>

\* set_target_angular_speed(0.); set_target_linear_speed(0.);
\* each(2, log_front_sensors_calibration, 200);
front_169 ==
    /\ pc = "front_169"
    /\ SetTargetSpeeds(0, 0)
    /\ zero_tick' = ticks_elapsed
    /\ EachCall(FrontSettlePeriod, "log_front_sensors_calibration",
                FrontSettleTicks, "front_173")
    /\ EnterPhases(<<"RAMP_DOWN", "SETTLE">>)
    /\ UNCHANGED <<micrometers, locals, sleepVars, configVars, controlVars,
                   clockVars, runVars, probeVars, resets, cmd_tick, reset_tick,
                   travelVars>>
    /\ UNCHANGED <<sensorVars, encVars>>

\* set_linear_acceleration(linear_acceleration); reset_motion();
front_173 ==
    /\ pc = "front_173"
    /\ linear_acceleration' = locals.linear_acceleration
    /\ reset_motion
    /\ reset_tick' = ticks_elapsed
    /\ pc' = "done"
    /\ EnterPhases(<<"IDLE">>)
    /\ UNCHANGED <<locals, eachVars, sleepVars, linear_deceleration,
                   max_linear_speed, controlVars, speedVars, clockVars,
                   runVars, probeVars, cmd_tick, zero_tick, travelVars>>
    /\ UNCHANGED <<sensorVars, encVars>>

run_front_sensors_calibration ==
    front_152 \/ front_161 \/ front_166 \/ front_168 \/ front_169 \/ front_173

\* ------------------------------------------------------------------------
\* run_distances_profiling
\* ------------------------------------------------------------------------

\* for (i = 0; i < 1000; i++)
ProfilingCalls == 1000

\* uint16_t i; i++
U16Inc(n) == (n + 1) % TwoTo16

\* clock_tick_start = get_clock_ticks(); i = 0;
dist_68 ==
    /\ pc = "idle"
    /\ proc = "distances"
    /\ locals' = [locals EXCEPT !.clock_tick_start = clock_ticks, !.i = 0]
    /\ pc' = "dist_69"
    /\ UNCHANGED <<micrometers, in_motion, eachVars, sleepVars, configVars,
                   controlVars, speedVars, clockVars, runVars, probeVars,
                   phases, resets, phaseVars, travelVars>>
    /\ UNCHANGED <<sensorVars, encVars>>

\* for (...; i < 1000; i++) update_distance_readings();
dist_69 ==
    /\ pc = "dist_69"
    /\ IF locals.i < ProfilingCalls
       THEN /\ distance_updates' = distance_updates + 1
            /\ locals' = [locals EXCEPT !.i = U16Inc(locals.i)]
            /\ UNCHANGED pc
       ELSE /\ pc' = "dist_71"
            /\ UNCHANGED <<locals, distance_updates>>
    /\ UNCHANGED <<micrometers, in_motion, eachVars, sleepVars, configVars,
                   controlVars, speedVars, clockVars, runVars, log_info,
                   phases, resets, phaseVars, travelVars>>
    /\ UNCHANGED <<sensorVars, encVars>>

\* clock_tick_end = get_clock_ticks();
\* LOG_INFO("Clock ticks %" PRIu32, (clock_tick_end - clock_tick_start));
dist_71 ==
    /\ pc = "dist_71"
    /\ locals' = [locals EXCEPT !.clock_tick_end = clock_ticks]
    /\ log_info' = U32Sub(clock_ticks, locals.clock_tick_start)
    /\ pc' = "done"
    /\ UNCHANGED <<micrometers, in_motion, eachVars, sleepVars, configVars,
                   controlVars, speedVars, clockVars, runVars,
                   distance_updates, phases, resets, phaseVars, travelVars>>
    /\ UNCHANGED <<sensorVars, encVars>>

run_distances_profiling == dist_68 \/ dist_69 \/ dist_71

\* ------------------------------------------------------------------------
\* The calibration run
\* ------------------------------------------------------------------------

Procedures == {"linear", "angular", "static_turn", "mpc", "front", "distances"}

\* A run starts one procedure, with the configuration and the tick counter
\* as the firmware left them.
Init ==
    /\ SensorIdle
    /\ EncoderIdle
    /\ proc \in Procedures
    /\ cells \in (IF proc = "mpc" THEN 1..MaxCells ELSE {0})
    /\ pc = "idle"
    /\ led = FALSE
    /\ clock_ticks \in (IF proc = "distances" THEN ProbeClockStarts ELSE ClockStarts)
    /\ ticks_elapsed = 0
    /\ travel_ticks = 0
    /\ micrometers = 0
    /\ in_motion = FALSE
    /\ target_linear_speed = 0
    /\ target_angular_speed = 0
    /\ motor_control = FALSE
    /\ side_control = TRUE
    /\ front_control = TRUE
    /\ \E c \in ConfigInputs :
         /\ linear_acceleration = c[1]
         /\ linear_deceleration = c[2]
         /\ max_linear_speed = c[3]
         /\ init_config = c
    /\ locals = NoLocals
    /\ each_period = 0
    /\ each_during = 0
    /\ each_function = "none"
    /\ each_start = <<0, 0>>
    /\ each_last = <<0, 0>>
    /\ each_ret = "none"
    /\ sleep_start = <<0, 0>>
    /\ sleep_for = 0
    /\ sleep_ret = "none"
    /\ each_calls = 0
    /\ each_returned = -1
    /\ cmd_tick = -1
    /\ zero_tick = -1
    /\ reset_tick = -1
    /\ exit_diff = -1
    /\ polls_below = TRUE
    /\ phases = <<"IDLE">>
    /\ resets = 0
    /\ log_info = <<>>
    /\ distance_updates = 0

Next ==
    \/ \E d \in MicrometerSteps : sys_tick(d)
    \/ each
    \/ sleep_ticks
    \/ run_linear_speed_profile
    \/ run_angular_speed_profile
    \/ run_micrometers_per_count_calibration
    \/ run_front_sensors_calibration
    \/ run_distances_profiling

Spec == Init /\ [][Next]_vars

\* The steps of the foreground.
Foreground ==
    \/ each
    \/ sleep_ticks
    \/ run_linear_speed_profile
    \/ run_angular_speed_profile
    \/ run_micrometers_per_count_calibration
    \/ run_front_sensors_calibration
    \/ run_distances_profiling

\* The calibration run on a processor that never halts: the foreground
\* takes its next step whenever it has one, and the tick timer keeps firing
\* for as long as the foreground waits (up to the bound on distance waits,
\* beyond which a wait that has not ended goes on unchanged).
LiveSpec ==
    /\ Spec
    /\ WF_vars(Foreground)
    /\ WF_vars(\E d \in MicrometerSteps : sys_tick(d))

\* ------------------------------------------------------------------------
\* Claims about the calibration procedures (checked under Spec)
\* ------------------------------------------------------------------------

\* Ticks between the phase speed command and the zero speed command.
HoldDuration == zero_tick - cmd_tick

\* Ticks between the zero speed command and the final reset_motion.
SettleDuration == reset_tick - zero_tick

\* Ticks the running each() had run for at its latest invocation.
EachLastElapsed == U32Value(U32Sub(each_last, each_start))

\* Ticks the running each() has run for.
EachElapsed == U32Value(TicksSince(each_start))

\* C2: in run_linear_speed_profile every poll that keeps travelling saw less
\* than 500000 micrometers since the start of travel, the poll that ends the
\* travel saw at least 500000, and the zero speed command is issued at that
\* poll, before any further tick.
C2_LinearTransitionExact ==
    proc = "linear" =>
        /\ polls_below
        /\ exit_diff # -1 => exit_diff >= 500000
        /\ pc = "lin_25" =>
              /\ exit_diff = micrometers - locals.start_micrometers
              /\ zero_tick = -1
        /\ zero_tick # -1 =>
              /\ exit_diff >= 500000
              /\ target_linear_speed = 0 \/ pc = "done"

\* C2 witness: the travel ended at the third poll, two ticks after the speed
\* command, on a distance beyond the threshold.
C2_Witness ==
    /\ proc = "linear"
    /\ zero_tick # -1
    /\ HoldDuration = 2
    /\ exit_diff = 550000

\* C4: with target_angular_speed = 4*pi, zero speed is commanded 750 ticks
\* after the angular target speed in run_angular_speed_profile and 125 ticks
\* after it in run_static_turn_right_profile, each within 10 ticks.
C4_HoldDuration ==
    /\ (proc \in {"angular", "static_turn"} /\ cmd_tick # -1 /\ zero_tick = -1) =>
          /\ target_angular_speed \in FloatRounded(4 * PI)
          /\ target_linear_speed = 0
    /\ (proc = "angular" /\ zero_tick # -1) =>
          (HoldDuration >= 750 - 10 /\ HoldDuration <= 750 + 10)
    /\ (proc = "static_turn" /\ zero_tick # -1) =>
          (HoldDuration >= 125 - 10 /\ HoldDuration <= 125 + 10)

\* C4 witness: the static turn commanded zero speed after a hold whose last
\* interval was cut short.
C4_Witness ==
    /\ proc = "static_turn"
    /\ zero_tick # -1
    /\ HoldDuration = 124
    /\ target_angular_speed = 0

\* C5: reset_motion is called exactly 2000 ticks after the zero speed command
\* in run_linear_speed_profile and run_angular_speed_profile and exactly 200
\* ticks after it in run_static_turn_right_profile, the logging function
\* having been invoked at every interval in between, wherever the encoders
\* stand.
C5_SettlePersistence ==
    /\ (proc = "linear" /\ reset_tick # -1) =>
          (SettleDuration = 2000 /\ each_calls = 2000)
    /\ (proc = "angular" /\ reset_tick # -1) =>
          (SettleDuration = 2000 /\ each_calls = 200)
    /\ (proc = "static_turn" /\ reset_tick # -1) =>
          (SettleDuration = 200 /\ each_calls = 20)
    /\ (proc \in {"linear", "angular", "static_turn"} /\ zero_tick # -1 /\ reset_tick = -1) =>
          /\ ticks_elapsed - zero_tick <= (IF proc = "static_turn" THEN 200 ELSE 2000)
          /\ target_linear_speed = 0
          /\ target_angular_speed = 0

\* C5 witness: the linear profile has finished its settle phase, during which
\* the vehicle kept moving, and is about to call reset_motion.
C5_Witness ==
    /\ proc = "linear"
    /\ pc = "lin_28"
    /\ ticks_elapsed - zero_tick = 2000
    /\ micrometers - locals.start_micrometers > exit_diff

\* C6: each invokes the function at elapsed tick 0 and then every period
\* ticks, never once the total has elapsed, and returns at the tick at which
\* the total is reached, cutting the last interval short if need be.
C6_EachCadence ==
    /\ pc = "each_invoke" =>
          /\ EachElapsed = each_calls * each_period
          /\ EachElapsed < each_during
    /\ pc = "each_wait" =>
          /\ each_calls >= 1
          /\ EachLastElapsed = (each_calls - 1) * each_period
          /\ EachLastElapsed < each_during
          /\ EachElapsed - EachLastElapsed <= each_period
          /\ EachElapsed <= each_during
    /\ each_returned # -1 =>
          /\ each_returned = each_during
          /\ each_calls = (each_during + each_period - 1) \div each_period

\* C6 witness: an each has returned after 124 ticks with a period of 10: 13
\* invocations, the last interval cut to 4 ticks.
C6_Witness ==
    /\ each_returned = 124
    /\ each_period = 10
    /\ each_calls = 13

\* C7: when run_micrometers_per_count_calibration returns, the linear
\* acceleration, the linear deceleration and the maximum linear speed have
\* their values of before the call; when run_front_sensors_calibration
\* returns, the linear acceleration has; and a value a procedure does not
\* override keeps its value of before the call throughout.
C7_ScopedOverride ==
    /\ (proc = "mpc" /\ pc = "done") =>
          <<linear_acceleration, linear_deceleration, max_linear_speed>> = init_config
    /\ (proc = "front" /\ pc = "done") => linear_acceleration = init_config[1]
    /\ proc = "front" =>
          (linear_deceleration = init_config[2] /\ max_linear_speed = init_config[3])
    /\ proc \in {"linear", "angular", "static_turn"} =>
          <<linear_acceleration, linear_deceleration, max_linear_speed>> = init_config

\* C7 witness: run_micrometers_per_count_calibration has returned in a run
\* whose initial configuration differs from the values it sets.
C7_Witness ==
    /\ proc = "mpc"
    /\ pc = "done"
    /\ init_config = <<2000, 3000, 600>>
    /\ locals.linear_deceleration = 3000

\* A movement is commanded: a target speed other than zero is in force.
MotionCommanded == target_linear_speed # 0 \/ target_angular_speed # 0

\* C11 (as stated): whenever a movement is commanded, motor control is
\* enabled and the side and the front sensors control are both disabled.
C11_EntryActions ==
    MotionCommanded => (motor_control /\ ~side_control /\ ~front_control)

\* C11 (amended): whenever a movement is commanded, motor control is enabled
\* and the front sensors control is disabled; the side sensors control is
\* disabled too, except in run_micrometers_per_count_calibration from the
\* call of accelerate until disable_walls_control is called before decelerate,
\* where it is enabled.
C11_EntryActionsSideInAccelerate ==
    MotionCommanded =>
        /\ motor_control
        /\ ~front_control
        /\ side_control <=> (proc = "mpc" /\ pc \in {"accelerate", "mpc_128"})

\* C11 witness: run_micrometers_per_count_calibration is in decelerate, the
\* vehicle has moved under side sensors control and that control is now off.
C11_Witness ==
    /\ proc = "mpc"
    /\ pc = "decelerate"
    /\ MotionCommanded
    /\ micrometers > 0
    /\ motor_control
    /\ ~side_control
    /\ ~front_control

\* IDLE -> RAMP_UP -> HOLD/TRAVEL -> RAMP_DOWN -> SETTLE -> IDLE
PhaseOrder == <<"IDLE", "RAMP_UP", "HOLD_TRAVEL", "RAMP_DOWN", "SETTLE", "IDLE">>

\* The procedures of the phase table (all but the throughput probe).
PhaseBased == proc \in {"linear", "angular", "static_turn", "mpc", "front"}

\* The phases entered so far are the first ones of the fixed order.
PhasesInOrder ==
    /\ Len(phases) <= Len(PhaseOrder)
    /\ \A i \in 1..Len(phases) : phases[i] = PhaseOrder[i]

\* C12 (as stated): the phases are entered in the fixed order, a procedure
\* has returned exactly when all of them were, and reset_motion is called
\* once in the run, by the step that returns to IDLE.
C12_PhaseOrder ==
    PhaseBased =>
        /\ PhasesInOrder
        /\ pc = "done" <=> phases = PhaseOrder
        /\ resets = (IF pc = "done" THEN 1 ELSE 0)

\* Calls of reset_motion a procedure makes on entry, before any command.
EntryResets == IF proc = "mpc" /\ pc \notin {"idle", "mpc_119"} THEN 1 ELSE 0

\* C12 (amended): the phases are entered in the fixed order, a procedure has
\* returned exactly when all of them were, and reset_motion is called by the
\* step that returns to IDLE: once in the run, except that
\* run_micrometers_per_count_calibration also calls it once on entry.
C12_PhaseOrderResetAtEnd ==
    PhaseBased =>
        /\ PhasesInOrder
        /\ pc = "done" <=> phases = PhaseOrder
        /\ resets = EntryResets + (IF pc = "done" THEN 1 ELSE 0)

\* C12 witness: run_static_turn_right_profile has returned through all the
\* phases with its one call of reset_motion.
C12_Witness ==
    /\ proc = "static_turn"
    /\ pc = "done"
    /\ phases = PhaseOrder
    /\ resets = 1
    /\ reset_tick > zero_tick
    /\ zero_tick > cmd_tick

\* The vehicle was commanded to move and its distance wait has lasted for as
\* long as the model follows one.
TravelBoundReached == in_motion /\ InTravel /\ travel_ticks = MaxTravelTicks

\* C13: every started calibration procedure eventually returns (a vehicle
\* that was commanded to move being followed up to the bound on distance
\* waits only). A wait that has reached the bound with no movement
\* commanded (in_motion false, so that no tick changes micrometers) goes on
\* in the code, one poll per tick, with nothing but the tick counter
\* changing; the model shows it as the state it is left in.
C13_RunToCompletion == <>(pc = "done" \/ TravelBoundReached)

\* The result of required_micrometers_to_speed(0.) if it is called now.
StoppingDistance == MicrometersToRest(target_linear_speed, linear_deceleration)

\* The travel loop of run_front_sensors_calibration and its exit.
FrontTravel == proc = "front" /\ pc \in {"front_166", "front_168", "front_169"}

IsrStep == isr_pc # "idle" \/ isr_pc' # "idle"

TickStep == led' # led

ForegroundStep == main_pc' # main_pc \/ args_read' # args_read

\* Motion commands, configuration and encoder state.
motionVars == <<speedVars, controlVars, configVars, TIM_CNT, last_count,
                encoder_micrometers, micrometers>>

C17_TickClock ==
    /\ [][TickStep => clock_ticks' = U32Inc(clock_ticks)]_vars
    /\ [][(clock_ticks' # clock_ticks) => TickStep]_vars

\* ------------------------------------------------------------------------
\* Claims about run_distances_profiling (checked under Spec)
\* ------------------------------------------------------------------------

\* C16: run_distances_profiling has called update_distance_readings exactly
\* 1000 times when it reads the tick counter again; what it reports is the
\* number of ticks that passed between its two reads, also when the counter
\* wrapped in between; and it commands no speed, enables no control, calls
\* no reset_motion and leaves the configuration as it was.
C16_ThroughputProbe ==
    proc = "distances" =>
        /\ pc = "dist_69" => distance_updates = locals.i
        /\ pc \in {"dist_71", "done"} => distance_updates = 1000
        /\ pc # "done" => log_info = <<>>
        /\ pc = "done" =>
              /\ log_info = U32(ticks_elapsed)
              /\ log_info = U32Sub(locals.clock_tick_end, locals.clock_tick_start)
        /\ target_linear_speed = 0 /\ target_angular_speed = 0
        /\ cmd_tick = -1 /\ zero_tick = -1 /\ resets = 0
        /\ ~motor_control /\ side_control /\ front_control
        /\ <<linear_acceleration, linear_deceleration, max_linear_speed>> = init_config
        /\ micrometers = 0

\* C16 witness: the probe has returned after 1000 calls, the tick counter
\* having wrapped between its two reads.
C16_Witness ==
    /\ proc = "distances"
    /\ pc = "done"
    /\ distance_updates = 1000
    /\ locals.clock_tick_start[1] = TwoTo16 - 1
    /\ locals.clock_tick_end[1] = 0
    /\ log_info = U32(MaxProbeTicks)

\* ------------------------------------------------------------------------
\* Further claims about the calibration procedures (checked under Spec)
\* ------------------------------------------------------------------------

\* C18: run_linear_speed_profile started with a maximum linear speed of zero
\* is rejected: it commands no target speed and enters no phase.
C18_ConfigurationRejected ==
    (proc = "linear" /\ init_config[3] = 0) =>
        (cmd_tick = -1 /\ phases = <<"IDLE">>)

\* C19: once a procedure has returned both target speeds are zero; a target
\* speed other than zero is in force only with motor control enabled, after
\* the speed command of the procedure and before its zero speed command; and
\* no step after the final reset_motion changes a target speed.
C19_SafeStateOnExit ==
    /\ [](/\ pc = "done" => (target_linear_speed = 0 /\ target_angular_speed = 0)
          /\ MotionCommanded =>
                (motor_control /\ cmd_tick # -1 /\ zero_tick = -1 /\ reset_tick = -1)
          /\ reset_tick # -1 => pc = "done")
    /\ [][reset_tick # -1 => UNCHANGED <<speedVars, in_motion>>]_vars

\* C19 witness: run_angular_speed_profile has returned, having commanded its
\* angular speed and, after the hold, zero.
C19_Witness ==
    /\ proc = "angular"
    /\ pc = "done"
    /\ cmd_tick # -1
    /\ zero_tick > cmd_tick
    /\ reset_tick > zero_tick
    /\ target_angular_speed = 0
    /\ target_linear_speed = 0

\* The procedures that log a baseline before they command a speed.
Profiles == {"linear", "angular", "static_turn"}

\* The each() of the baseline has returned and the speed command is next.
BaselineDone == proc \in Profiles /\ pc \in {"lin_18", "ang_48"}

\* C20: in the three profiles no target speed is commanded before the speed
\* command that follows the baseline; the baseline runs with motor control
\* enabled, for 1000 ticks with one log record every 10 ticks, 100 in all;
\* and the speed command is issued 1000 ticks after the procedure started.
C20_BaselineBeforeMotion ==
    proc \in Profiles =>
        /\ cmd_tick = -1 =>
              (target_linear_speed = 0 /\ target_angular_speed = 0 /\ ~in_motion)
        /\ (cmd_tick = -1 /\ pc # "idle") =>
              (motor_control /\ each_period = 10 /\ each_during = 1000
               /\ ticks_elapsed = EachElapsed)
        /\ BaselineDone =>
              (each_returned = 1000 /\ each_calls = 100 /\ ticks_elapsed = 1000)
        /\ cmd_tick # -1 => cmd_tick = 1000

\* C20 witness: run_linear_speed_profile has logged its baseline and stands
\* before its speed command.
C20_Witness ==
    /\ proc = "linear"
    /\ pc = "lin_18"
    /\ motor_control
    /\ each_calls = 100
    /\ ticks_elapsed = 1000
    /\ target_linear_speed = 0
    /\ max_linear_speed # 0

====
